---------------------------- MODULE Spec2Model ----------------------------
(***************************************************************************)
(* Model of ReportEngine/utils/chart_repair_api.py (the chart repair       *)
(* callables built by create_llm_repair_functions) and of the chapter      *)
(* sanitization helper exercised by tests/test_report_engine_sanitization. *)
(*                                                                         *)
(* Python values are modelled as records of one shape,                     *)
(*   [kind, atom, items],                                                  *)
(* kind in "null" (None), "bool", "num", "str", "list", "dict", "member"   *)
(* (one key/value pair of a dict) and "object" (a Python object json       *)
(* cannot serialise).  JSON text is a sequence of tokens.                  *)
(***************************************************************************)
EXTENDS Integers, Sequences, FiniteSets, TLC

VARIABLES settings, created, repair_functions, create_log, call,
          chapter, original, sanitized

vars == <<settings, created, repair_functions, create_log, call,
          chapter, original, sanitized>>

(***************************************************************************)
(* Bounds of the model.                                                    *)
(***************************************************************************)
MaxTokens == 3
MaxErrors == 2
MaxRows == 2
MaxCells == 2

(***************************************************************************)
(* Python / JSON values.                                                   *)
(***************************************************************************)
JNull == [kind |-> "null", atom |-> "", items |-> <<>>]

JAtom(k, a) == [kind |-> k, atom |-> a, items |-> <<>>]

JList(xs) == [kind |-> "list", atom |-> "", items |-> xs]

JMember(k, v) == [kind |-> "member", atom |-> k, items |-> <<v>>]

JDict(ms) == [kind |-> "dict", atom |-> "", items |-> ms]

PyObject == [kind |-> "object", atom |-> "set()", items |-> <<>>]

StringTokens == {"\"a\"", "\"b\""}

NumberTokens == {"1"}

Tokens == {"{", "}", "[", "]", ":", ","} \cup {"\"a\"", "1", "true", "null"}

(***************************************************************************)
(* json.loads: a recursive-descent parse of a token sequence.  The result  *)
(* is [ok, val, next]; ok = FALSE stands for json.JSONDecodeError.         *)
(***************************************************************************)
ParseFail == [ok |-> FALSE, val |-> JNull, next |-> 0]

ParseOk(v, n) == [ok |-> TRUE, val |-> v, next |-> n]

\* dict[key] = value: a repeated key keeps its place and takes the new value.
DictSet(ms, k, v) ==
  IF \E i \in 1..Len(ms) : ms[i].atom = k
  THEN [i \in 1..Len(ms) |-> IF ms[i].atom = k THEN JMember(k, v) ELSE ms[i]]
  ELSE Append(ms, JMember(k, v))

RECURSIVE ParseValue(_, _)
RECURSIVE ParseElements(_, _, _)
RECURSIVE ParseMembers(_, _, _)

ParseValue(toks, i) ==
  IF i > Len(toks) THEN ParseFail
  ELSE LET t == toks[i] IN
    CASE t \in StringTokens -> ParseOk(JAtom("str", t), i + 1)
      [] t \in NumberTokens -> ParseOk(JAtom("num", t), i + 1)
      [] t = "true" -> ParseOk(JAtom("bool", t), i + 1)
      [] t = "null" -> ParseOk(JNull, i + 1)
      [] t = "[" ->
           IF i + 1 <= Len(toks) /\ toks[i + 1] = "]"
           THEN ParseOk(JList(<<>>), i + 2)
           ELSE ParseElements(toks, i + 1, <<>>)
      [] t = "{" ->
           IF i + 1 <= Len(toks) /\ toks[i + 1] = "}"
           THEN ParseOk(JDict(<<>>), i + 2)
           ELSE ParseMembers(toks, i + 1, <<>>)
      [] OTHER -> ParseFail

ParseElements(toks, i, acc) ==
  LET r == ParseValue(toks, i) IN
  IF ~r.ok \/ r.next > Len(toks) THEN ParseFail
  ELSE IF toks[r.next] = "]" THEN ParseOk(JList(Append(acc, r.val)), r.next + 1)
  ELSE IF toks[r.next] = "," THEN ParseElements(toks, r.next + 1, Append(acc, r.val))
  ELSE ParseFail

ParseMembers(toks, i, acc) ==
  IF i + 1 > Len(toks) \/ toks[i] \notin StringTokens \/ toks[i + 1] # ":"
  THEN ParseFail
  ELSE LET r == ParseValue(toks, i + 2) IN
    IF ~r.ok \/ r.next > Len(toks) THEN ParseFail
    ELSE IF toks[r.next] = "}"
      THEN ParseOk(JDict(DictSet(acc, toks[i], r.val)), r.next + 1)
    ELSE IF toks[r.next] = ","
      THEN ParseMembers(toks, r.next + 1, DictSet(acc, toks[i], r.val))
    ELSE ParseFail

\* json.loads(text): the whole text must be one JSON value.
json_loads(text) ==
  LET r == ParseValue(text, 1) IN
  IF r.ok /\ r.next = Len(text) + 1 THEN r ELSE ParseFail

(***************************************************************************)
(* json.dumps: TypeError (Serializable = FALSE) on a value that holds a    *)
(* Python object json does not know; otherwise the value's tokens.         *)
(***************************************************************************)
RECURSIVE Serializable(_)
Serializable(v) ==
  /\ v.kind # "object"
  /\ \A i \in 1..Len(v.items) : Serializable(v.items[i])

RECURSIVE json_dumps(_)
RECURSIVE DumpItems(_, _)

DumpItems(xs, i) ==
  IF i > Len(xs) THEN <<>>
  ELSE (IF i > 1 THEN <<",">> ELSE <<>>) \o json_dumps(xs[i]) \o DumpItems(xs, i + 1)

json_dumps(v) ==
  CASE v.kind = "list" -> <<"[">> \o DumpItems(v.items, 1) \o <<"]">>
    [] v.kind = "dict" -> <<"{">> \o DumpItems(v.items, 1) \o <<"}">>
    [] v.kind = "member" -> <<v.atom, ":">> \o json_dumps(v.items[1])
    [] v.kind = "null" -> <<"null">>
    [] OTHER -> <<v.atom>>


(***************************************************************************)
(* build_chart_repair_prompt.  A prompt is a sequence of lines, a line a   *)
(* sequence of tokens; the fixed sentences of the template are one token   *)
(* each, and block_json (printed with indent=2) is kept as one line of     *)
(* JSON tokens.  ok = FALSE stands for the TypeError of json.dumps.        *)
(***************************************************************************)
CHART_REPAIR_SYSTEM_PROMPT == "CHART_REPAIR_SYSTEM_PROMPT"

\* "\n".join(lines): no line at all still leaves one empty line in the template.
JoinLines(lines) == IF lines = <<>> THEN << <<>> >> ELSE lines

build_chart_repair_prompt(widget_block, validation_errors) ==
  IF ~Serializable(widget_block)
  THEN [ok |-> FALSE, lines |-> <<>>]
  ELSE LET block_json == json_dumps(widget_block)
           errors_text == JoinLines([i \in 1..Len(validation_errors) |->
                                       <<"- ", validation_errors[i]>>])
       IN [ok |-> TRUE,
           lines |-> << <<"Please fix the errors in the chart data below:">>,
                        <<>>,
                        <<"**original data:**">>,
                        <<"[fence json]">>,
                        block_json,
                        <<"[fence]">>,
                        <<>>,
                        <<"**detected errors:**">> >>
                     \o errors_text
                     \o << <<>>,
                           <<"**requirements:**">>,
                           <<"1-4 return the repaired complete widget block">>,
                           <<>>,
                           <<"**output format:**">>,
                           <<"1-4 pure JSON object only">> >>]

(***************************************************************************)
(* settings: the per-engine API key / base URL / model name triples.       *)
(* The string <None> stands for Python's None; the empty string is itself. *)
(***************************************************************************)
Truthy(v) == v \notin {"<None>", ""}

Engines == <<"ReportEngine", "ForumEngine", "InsightEngine", "MediaEngine">>

\* The external LLM client: LLMClient(api_key, base_url, model_name).
LLMClient(api_key, base_url, model_name) ==
  [api_key |-> api_key, base_url |-> base_url, model_name |-> model_name]

\* What client.invoke(system_prompt, user_prompt, temperature, top_p) sends.
InvokeRequest(client, system_prompt, user_prompt, temperature, top_p) ==
  [client |-> client, system_prompt |-> system_prompt, user_prompt |-> user_prompt,
   temperature |-> temperature, top_p |-> top_p]

\* logger.error(f"<engine>...: {e}")
ErrorLog(engine, exc) == [level |-> "error", engine |-> engine, exc |-> exc]

(***************************************************************************)
(* The body every repair closure shares (the four are copies of each       *)
(* other).  env is what the outside world does during the call:            *)
(*   env.fail = "import"     the import of LLMClient raises                *)
(*   env.fail = "construct"  LLMClient(...) raises                         *)
(*   env.fail = "network" / "auth"   client.invoke raises                  *)
(*   env.fail = "none"       client.invoke returns env.response            *)
(* The effect is what the caller can observe: the value returned, whether  *)
(* an exception left the call, the requests sent, the lines logged, and    *)
(* the arguments and settings as the call leaves them.                     *)
(***************************************************************************)
Effect(result, raised, requests, logs, widget_block, errors) ==
  [result |-> result, raised |-> raised, requests |-> requests, logs |-> logs,
   widget_block |-> widget_block, errors |-> errors, settings |-> settings]

\* Mutant: the except clause logs and raises again.
CaughtReraised(engine, exc, requests, widget_block, errors) ==
  Effect(JNull, TRUE, requests, <<ErrorLog(engine, exc)>>, widget_block, errors)

\* Mutant: the except clause invokes the backend once more before giving up.
CaughtRetrying(engine, exc, requests, widget_block, errors) ==
  Effect(JNull, FALSE, requests \o requests, <<ErrorLog(engine, exc)>>,
         widget_block, errors)

\* Mutant: the except clause switches the failing setup off for later calls.
CaughtDisabling(engine, exc, requests, widget_block, errors) ==
  [Effect(JNull, FALSE, requests, <<ErrorLog(engine, exc)>>, widget_block, errors)
     EXCEPT !.settings = [k \in DOMAIN settings |-> ""]]

Caught(engine, exc, requests, widget_block, errors) ==
  Effect(JNull, FALSE, requests, <<ErrorLog(engine, exc)>>, widget_block, errors)

\* Mutant: only a None response counts as empty.
ResponseNone(response) == response.isNone

ResponseEmpty(response) == response.isNone \/ response.text = <<>>

TryRepair(engine, client, temperature, top_p, widget_block, errors, env) ==
  IF env.fail = "import" THEN Caught(engine, "ImportError", <<>>, widget_block, errors)
  ELSE IF env.fail = "construct"
    THEN Caught(engine, "ClientError", <<>>, widget_block, errors)
  ELSE LET prompt == build_chart_repair_prompt(widget_block, errors) IN
    IF ~prompt.ok THEN Caught(engine, "TypeError", <<>>, widget_block, errors)
    ELSE LET request == InvokeRequest(client, CHART_REPAIR_SYSTEM_PROMPT,
                                      prompt.lines, temperature, top_p) IN
      IF env.fail # "none"
      THEN Caught(engine, env.fail, <<request>>, widget_block, errors)
      ELSE IF ResponseEmpty(env.response)
        THEN Effect(JNull, FALSE, <<request>>, <<>>, widget_block, errors)
      ELSE LET repaired == json_loads(env.response.text) IN
        IF ~repaired.ok
        THEN Caught(engine, "JSONDecodeError", <<request>>, widget_block, errors)
        ELSE Effect(repaired.val, FALSE, <<request>>, <<>>, widget_block, errors)

repair_with_report_engine(widget_block, errors, env) ==
  TryRepair("ReportEngine",
            LLMClient(settings.REPORT_ENGINE_API_KEY,
                      settings.REPORT_ENGINE_BASE_URL,
                      IF Truthy(settings.REPORT_ENGINE_MODEL_NAME)
                      THEN settings.REPORT_ENGINE_MODEL_NAME ELSE "gpt-4"),
            "0.0", "0.05", widget_block, errors, env)

\* Mutant: a closure that samples with another top_p.
repair_with_forum_engine_sampling(widget_block, errors, env) ==
  TryRepair("ForumEngine",
            LLMClient(settings.FORUM_HOST_API_KEY,
                      settings.FORUM_HOST_BASE_URL,
                      IF Truthy(settings.FORUM_HOST_MODEL_NAME)
                      THEN settings.FORUM_HOST_MODEL_NAME ELSE "gpt-4"),
            "0.0", "0.5", widget_block, errors, env)

repair_with_forum_engine(widget_block, errors, env) ==
  TryRepair("ForumEngine",
            LLMClient(settings.FORUM_HOST_API_KEY,
                      settings.FORUM_HOST_BASE_URL,
                      IF Truthy(settings.FORUM_HOST_MODEL_NAME)
                      THEN settings.FORUM_HOST_MODEL_NAME ELSE "gpt-4"),
            "0.0", "0.05", widget_block, errors, env)

\* Mutant: a closure copied from the next one with its model name left in.
repair_with_insight_engine_copied(widget_block, errors, env) ==
  TryRepair("InsightEngine",
            LLMClient(settings.INSIGHT_ENGINE_API_KEY,
                      settings.INSIGHT_ENGINE_BASE_URL,
                      IF Truthy(settings.MEDIA_ENGINE_MODEL_NAME)
                      THEN settings.MEDIA_ENGINE_MODEL_NAME ELSE "gpt-4"),
            "0.0", "0.05", widget_block, errors, env)

repair_with_insight_engine(widget_block, errors, env) ==
  TryRepair("InsightEngine",
            LLMClient(settings.INSIGHT_ENGINE_API_KEY,
                      settings.INSIGHT_ENGINE_BASE_URL,
                      IF Truthy(settings.INSIGHT_ENGINE_MODEL_NAME)
                      THEN settings.INSIGHT_ENGINE_MODEL_NAME ELSE "gpt-4"),
            "0.0", "0.05", widget_block, errors, env)

repair_with_media_engine(widget_block, errors, env) ==
  TryRepair("MediaEngine",
            LLMClient(settings.MEDIA_ENGINE_API_KEY,
                      settings.MEDIA_ENGINE_BASE_URL,
                      IF Truthy(settings.MEDIA_ENGINE_MODEL_NAME)
                      THEN settings.MEDIA_ENGINE_MODEL_NAME ELSE "gpt-4"),
            "0.0", "0.05", widget_block, errors, env)

\* Calling the closure that create_llm_repair_functions appended for `engine`.
RepairCallable(engine, widget_block, errors, env) ==
  CASE engine = "ReportEngine" -> repair_with_report_engine(widget_block, errors, env)
    [] engine = "ForumEngine" -> repair_with_forum_engine(widget_block, errors, env)
    [] engine = "InsightEngine" -> repair_with_insight_engine(widget_block, errors, env)
    [] engine = "MediaEngine" -> repair_with_media_engine(widget_block, errors, env)

(***************************************************************************)
(* create_llm_repair_functions: the list of closures, named by engine, and *)
(* what it logs.                                                           *)
(***************************************************************************)
ReportConfigured ==
  Truthy(settings.REPORT_ENGINE_API_KEY) /\ Truthy(settings.REPORT_ENGINE_BASE_URL)

\* Mutant: the guard also asks for a model name.
ForumConfiguredWithModel ==
  /\ Truthy(settings.FORUM_HOST_API_KEY)
  /\ Truthy(settings.FORUM_HOST_BASE_URL)
  /\ Truthy(settings.FORUM_HOST_MODEL_NAME)

ForumConfigured ==
  Truthy(settings.FORUM_HOST_API_KEY) /\ Truthy(settings.FORUM_HOST_BASE_URL)

InsightConfigured ==
  Truthy(settings.INSIGHT_ENGINE_API_KEY) /\ Truthy(settings.INSIGHT_ENGINE_BASE_URL)

MediaConfigured ==
  Truthy(settings.MEDIA_ENGINE_API_KEY) /\ Truthy(settings.MEDIA_ENGINE_BASE_URL)

create_llm_repair_functions ==
  LET f1 == IF ReportConfigured THEN <<"ReportEngine">> ELSE <<>>
      f2 == IF ForumConfigured THEN Append(f1, "ForumEngine") ELSE f1
      f3 == IF InsightConfigured THEN Append(f2, "InsightEngine") ELSE f2
      f4 == IF MediaConfigured THEN Append(f3, "MediaEngine") ELSE f3
  IN [functions |-> f4,
      log |-> IF f4 = <<>> THEN <<"warning: no engine API configured">> ELSE <<>>]


(***************************************************************************)
(* _sanitize_chapter_blocks (ChapterGenerationNode).  A chapter is a list  *)
(* of blocks; a table block has rows; a row is a scalar or an object with  *)
(* cells; a cell has a text and a blocks entry that is absent, None or a   *)
(* list of blocks.                                                         *)
(***************************************************************************)
Paragraph(text) == [type |-> "paragraph", rows |-> <<>>, inlines |-> <<[text |-> text]>>]

Table(rows) == [type |-> "table", rows |-> rows, inlines |-> <<>>]

BlockList(state, items) == [state |-> state, items |-> items]

Cell(text, blocks) == [text |-> text, blocks |-> blocks]

ScalarRow(value) == [scalar |-> TRUE, value |-> value, cells |-> <<>>]

ObjectRow(cells) == [scalar |-> FALSE, value |-> "", cells |-> cells]

\* Mutant: an empty list is left as it is.
SanitizeCellMissingOnly(cell) ==
  IF cell.blocks.state # "list"
  THEN Cell(cell.text, BlockList("list", <<Paragraph(cell.text)>>))
  ELSE cell

\* An empty, None or absent block list becomes a list of one paragraph.
SanitizeCell(cell) ==
  IF cell.blocks.state # "list" \/ cell.blocks.items = <<>>
  THEN Cell(cell.text, BlockList("list", <<Paragraph(cell.text)>>))
  ELSE cell

\* Mutant: the scalar is not carried into the paragraph.
SanitizeRowBlank(row) ==
  IF row.scalar
  THEN ObjectRow(<<Cell("", BlockList("list", <<Paragraph("")>>))>>)
  ELSE ObjectRow([i \in 1..Len(row.cells) |-> SanitizeCell(row.cells[i])])

\* A scalar row becomes a row of one cell whose paragraph holds the scalar.
SanitizeRow(row) ==
  IF row.scalar
  THEN ObjectRow(<<Cell(row.value, BlockList("list", <<Paragraph(row.value)>>))>>)
  ELSE ObjectRow([i \in 1..Len(row.cells) |-> SanitizeCell(row.cells[i])])

SanitizeBlock(block) ==
  IF block.type = "table"
  THEN Table([i \in 1..Len(block.rows) |-> SanitizeRow(block.rows[i])])
  ELSE block

sanitize_chapter_blocks(ch) ==
  [blocks |-> [i \in 1..Len(ch.blocks) |-> SanitizeBlock(ch.blocks[i])]]

(***************************************************************************)
(* Inputs.                                                                 *)
(***************************************************************************)
SeqsUpTo(S, n) == UNION {[1..k -> S] : k \in 0..n}

\* The triples one engine's settings are drawn from: configured with and
\* without a model name, and unconfigured in each way (key or URL empty or None).
Triples(key, url, model) ==
  {<<key, url, model>>, <<key, url, "">>, <<key, url, "<None>">>,
   <<key, "<None>", model>>, <<"", url, "">>, <<"<None>", "", "<None>">>}

AllSettings ==
  {[REPORT_ENGINE_API_KEY |-> r[1],
    REPORT_ENGINE_BASE_URL |-> r[2],
    REPORT_ENGINE_MODEL_NAME |-> r[3],
    FORUM_HOST_API_KEY |-> f[1],
    FORUM_HOST_BASE_URL |-> f[2],
    FORUM_HOST_MODEL_NAME |-> f[3],
    INSIGHT_ENGINE_API_KEY |-> i[1],
    INSIGHT_ENGINE_BASE_URL |-> i[2],
    INSIGHT_ENGINE_MODEL_NAME |-> i[3],
    MEDIA_ENGINE_API_KEY |-> m[1],
    MEDIA_ENGINE_BASE_URL |-> m[2],
    MEDIA_ENGINE_MODEL_NAME |-> m[3]] :
     r \in Triples("report-key", "report-url", "report-model"),
     f \in Triples("forum-key", "forum-url", "forum-model"),
     i \in Triples("insight-key", "insight-url", "insight-model"),
     m \in Triples("media-key", "media-url", "media-model")}

\* Every engine configured; two of them without a model name.
ConfiguredSettings ==
  [REPORT_ENGINE_API_KEY |-> "report-key",
   REPORT_ENGINE_BASE_URL |-> "report-url",
   REPORT_ENGINE_MODEL_NAME |-> "report-model",
   FORUM_HOST_API_KEY |-> "forum-key",
   FORUM_HOST_BASE_URL |-> "forum-url",
   FORUM_HOST_MODEL_NAME |-> "",
   INSIGHT_ENGINE_API_KEY |-> "insight-key",
   INSIGHT_ENGINE_BASE_URL |-> "insight-url",
   INSIGHT_ENGINE_MODEL_NAME |-> "<None>",
   MEDIA_ENGINE_API_KEY |-> "media-key",
   MEDIA_ENGINE_BASE_URL |-> "media-url",
   MEDIA_ENGINE_MODEL_NAME |-> "media-model"]

ChartWidget ==
  JDict(<<JMember("\"type\"", JAtom("str", "\"widget\"")),
          JMember("\"data\"",
                  JDict(<<JMember("\"labels\"", JList(<<JAtom("str", "\"A\"")>>)),
                          JMember("\"datasets\"", JAtom("str", "\"oops\""))>>))>>)

EmptyWidget == JDict(<<>>)

\* A widget block holding a Python object json.dumps rejects.
BadWidget == JDict(<<JMember("\"data\"", PyObject)>>)

Widgets == {ChartWidget, EmptyWidget, BadWidget}

ErrorMessages == {"missing labels", "datasets is not a list"}

ErrorLists == SeqsUpTo(ErrorMessages, MaxErrors)

NoResponse == [isNone |-> TRUE, text |-> <<>>]

TextResponse(text) == [isNone |-> FALSE, text |-> text]

DictText == <<"{", "\"a\"", ":", "1", "}">>

ListText == <<"[", "1", ",", "true", "]">>

RepeatedKeyText == <<"{", "\"a\"", ":", "1", ",", "\"a\"", ":", "[", "]", "}">>

BrokenText == <<"{", "\"a\"", ":">>

SampleTexts == {DictText, ListText, RepeatedKeyText, BrokenText}

BoundedTexts == SeqsUpTo(Tokens, MaxTokens)

Failures == {"import", "construct", "network", "auth"}

EnvsOver(texts) ==
  {[fail |-> f, response |-> NoResponse] : f \in Failures \cup {"none"}}
  \cup {[fail |-> "none", response |-> TextResponse(t)] : t \in texts}

\* One failure before the request, one after it, and three kinds of answer.
SomeEnvs ==
  {[fail |-> f, response |-> NoResponse] : f \in {"import", "network", "none"}}
  \cup {[fail |-> "none", response |-> TextResponse(t)] : t \in {DictText, BrokenText}}

NoCall ==
  [made |-> FALSE, engine |-> "", widget_block |-> JNull, errors |-> <<>>,
   env |-> [fail |-> "none", response |-> NoResponse],
   result |-> JNull, raised |-> FALSE, requests |-> <<>>, logs |-> <<>>,
   widget_after |-> JNull, errors_after |-> <<>>]

EmptyChapter == [blocks |-> <<>>]

CellSamples ==
  {Cell("", BlockList("absent", <<>>)),
   Cell("yoy", BlockList("none", <<>>)),
   Cell("", BlockList("list", <<>>)),
   Cell("", BlockList("list", <<Paragraph("kept")>>))}

RowSamples ==
  {ScalarRow("national trend")} \cup {ObjectRow(cs) : cs \in SeqsUpTo(CellSamples, MaxCells)}

Chapters ==
  {[blocks |-> <<Table(rows)>>] : rows \in SeqsUpTo(RowSamples, MaxRows)}
  \cup {[blocks |-> <<Paragraph("intro"), Table(<<r>>)>>] : r \in RowSamples}

(***************************************************************************)
(* Actions.                                                                *)
(***************************************************************************)
RepairIdle ==
  /\ created = FALSE
  /\ repair_functions = <<>>
  /\ create_log = <<>>
  /\ call = NoCall

SanitizeIdle ==
  /\ chapter = EmptyChapter
  /\ original = EmptyChapter
  /\ sanitized = FALSE

\* functions = create_llm_repair_functions()
Create ==
  /\ created' = TRUE
  /\ repair_functions' = create_llm_repair_functions.functions
  /\ create_log' = create_llm_repair_functions.log
  /\ UNCHANGED <<settings, call, chapter, original, sanitized>>

\* functions[i](widget_block, errors), the world behaving as env.
CallWith(i, widget_block, errors, env) ==
  LET engine == repair_functions[i]
      effect == RepairCallable(engine, widget_block, errors, env)
  IN /\ call' = [made |-> TRUE, engine |-> engine, widget_block |-> widget_block,
                 errors |-> errors, env |-> env,
                 result |-> effect.result, raised |-> effect.raised,
                 requests |-> effect.requests, logs |-> effect.logs,
                 widget_after |-> effect.widget_block,
                 errors_after |-> effect.errors]
     /\ settings' = effect.settings
     /\ UNCHANGED <<created, repair_functions, create_log, chapter, original, sanitized>>

Call(widgets, errorLists, envs) ==
  /\ created
  /\ \E i \in 1..Len(repair_functions) :
       \E widget_block \in widgets, errors \in errorLists, env \in envs :
         CallWith(i, widget_block, errors, env)

\* The first call made after the list was created.
FirstCall(widgets, errorLists, envs) ==
  /\ created
  /\ call.made = FALSE
  /\ \E i \in 1..Len(repair_functions) :
       \E widget_block \in widgets, errors \in errorLists, env \in envs :
         CallWith(i, widget_block, errors, env)

\* node._sanitize_chapter_blocks(chapter)
Sanitize ==
  /\ sanitized = FALSE
  /\ chapter' = sanitize_chapter_blocks(chapter)
  /\ sanitized' = TRUE
  /\ UNCHANGED <<settings, created, repair_functions, create_log, call, original>>

(***************************************************************************)
(* Specifications.                                                         *)
(***************************************************************************)
\* Every configuration of the settings; a few calls.
Init ==
  /\ settings \in AllSettings
  /\ RepairIdle
  /\ SanitizeIdle

Next ==
  \/ Create
  \/ Call({EmptyWidget}, {<<"missing labels">>}, SomeEnvs)

Spec == Init /\ [][Next]_vars

\* Every engine configured; every widget block and list of errors.
InitConfigured ==
  /\ settings = ConfiguredSettings
  /\ RepairIdle
  /\ SanitizeIdle

NextPrompt ==
  \/ Create
  \/ FirstCall(Widgets, ErrorLists, EnvsOver({<<>>, DictText, BrokenText}))

SpecPrompt == InitConfigured /\ [][NextPrompt]_vars

\* Every engine configured; every response text.
NextParse ==
  \/ Create
  \/ FirstCall({ChartWidget, BadWidget}, {<<"missing labels">>},
               EnvsOver(BoundedTexts \cup SampleTexts))

SpecParse == InitConfigured /\ [][NextParse]_vars

\* The chapter sanitization on every chapter.
InitSanitize ==
  /\ settings = ConfiguredSettings
  /\ RepairIdle
  /\ chapter \in Chapters
  /\ original = chapter
  /\ sanitized = FALSE

NextSanitize == Sanitize

SpecSanitize == InitSanitize /\ [][NextSanitize]_vars


(***************************************************************************)
(* Properties.                                                             *)
(***************************************************************************)
OwnKey(engine) ==
  CASE engine = "ReportEngine" -> settings.REPORT_ENGINE_API_KEY
    [] engine = "ForumEngine" -> settings.FORUM_HOST_API_KEY
    [] engine = "InsightEngine" -> settings.INSIGHT_ENGINE_API_KEY
    [] engine = "MediaEngine" -> settings.MEDIA_ENGINE_API_KEY

OwnUrl(engine) ==
  CASE engine = "ReportEngine" -> settings.REPORT_ENGINE_BASE_URL
    [] engine = "ForumEngine" -> settings.FORUM_HOST_BASE_URL
    [] engine = "InsightEngine" -> settings.INSIGHT_ENGINE_BASE_URL
    [] engine = "MediaEngine" -> settings.MEDIA_ENGINE_BASE_URL

OwnModel(engine) ==
  CASE engine = "ReportEngine" -> settings.REPORT_ENGINE_MODEL_NAME
    [] engine = "ForumEngine" -> settings.FORUM_HOST_MODEL_NAME
    [] engine = "InsightEngine" -> settings.INSIGHT_ENGINE_MODEL_NAME
    [] engine = "MediaEngine" -> settings.MEDIA_ENGINE_MODEL_NAME

EngineIndex(engine) == CHOOSE i \in 1..Len(Engines) : Engines[i] = engine

\* The backend answered with text (not None, not "") that is not JSON.
Unparsable(response) ==
  ~response.isNone /\ response.text # <<>> /\ ~json_loads(response.text).ok

\* Something raised inside the last call.
CallRaisedInside ==
  \/ call.env.fail # "none"
  \/ ~Serializable(call.widget_block)
  \/ Unparsable(call.env.response)

\* C1: a call never propagates an exception; whenever the import, the
\* client's construction, the prompt, the backend or the parse of the
\* response raises, the failure is logged and the call returns None.
C1_NeverPropagates ==
  call.made =>
    /\ ~call.raised
    /\ CallRaisedInside =>
         /\ call.result = JNull
         /\ Len(call.logs) = 1
         /\ call.logs[1].level = "error"
         /\ call.logs[1].engine = call.engine

C1_Witness ==
  /\ call.made
  /\ call.env.fail = "none"
  /\ Unparsable(call.env.response)
  /\ call.requests # <<>>
  /\ call.result = JNull
  /\ call.logs # <<>>

\* C2: the value a repair callable returns is None or a JSON object (dict),
\* never a list, a string, a number or a boolean.
C2_ReturnsNoneOrDict ==
  call.made => call.result.kind \in {"null", "dict"}

\* C5: one call sends at most one invoke request, to its own backend only;
\* after a failure it returns None without a second request.
C5_NoRetry ==
  call.made =>
    /\ Len(call.requests) <= 1
    /\ \A i \in 1..Len(call.requests) :
         /\ call.requests[i].client.base_url = OwnUrl(call.engine)
         /\ call.requests[i].client.api_key = OwnKey(call.engine)
    /\ CallRaisedInside => call.result = JNull

C5_Witness ==
  /\ call.made
  /\ call.env.fail = "network"
  /\ Len(call.requests) = 1
  /\ call.result = JNull

\* C6: the list holds an engine's callable exactly when that engine's API
\* key and base URL are both set, once, in the order ReportEngine,
\* ForumEngine, InsightEngine, MediaEngine, whatever the model names are;
\* with no engine configured it is empty and a warning was logged.
C6_ListMatchesSettings ==
  created =>
    /\ \A k \in 1..Len(Engines) :
         (\E i \in 1..Len(repair_functions) : repair_functions[i] = Engines[k])
           <=> (Truthy(OwnKey(Engines[k])) /\ Truthy(OwnUrl(Engines[k])))
    /\ \A i, j \in 1..Len(repair_functions) :
         i < j => EngineIndex(repair_functions[i]) < EngineIndex(repair_functions[j])
    /\ (repair_functions = <<>>) <=> (create_log # <<>>)

C6_Witness ==
  /\ created
  /\ repair_functions = <<"ForumEngine", "MediaEngine">>
  /\ ~Truthy(settings.FORUM_HOST_MODEL_NAME)
  /\ Truthy(settings.REPORT_ENGINE_API_KEY)
  /\ ~Truthy(settings.REPORT_ENGINE_BASE_URL)

C8_NoSharedState ==
  [][call'.made =>
       /\ settings' = settings
       /\ repair_functions' = repair_functions
       /\ call'.widget_after = call'.widget_block
       /\ call'.errors_after = call'.errors
       /\ (/\ call.made
           /\ call'.engine = call.engine
           /\ call'.widget_block = call.widget_block
           /\ call'.errors = call.errors
           /\ call'.env = call.env) =>
            (call'.result = call.result /\ call'.requests = call.requests)]_vars

\* A call that failed and left its arguments as they were.
C8_Witness ==
  /\ call.made
  /\ call.logs # <<>>
  /\ call.errors_after = <<"missing labels">>
  /\ call.widget_after = EmptyWidget

\* C9: each callable builds its client from its own engine's API key, base
\* URL and model name, the model name being gpt-4 exactly when the engine's
\* own is unset or empty.
C9_OwnSettingsOnly ==
  call.made =>
    \A i \in 1..Len(call.requests) :
      call.requests[i].client =
        [api_key |-> OwnKey(call.engine),
         base_url |-> OwnUrl(call.engine),
         model_name |-> IF OwnModel(call.engine) \in {"<None>", ""}
                        THEN "gpt-4" ELSE OwnModel(call.engine)]

C9_Witness ==
  /\ call.made
  /\ call.engine = "InsightEngine"
  /\ settings.INSIGHT_ENGINE_MODEL_NAME = ""
  /\ settings.MEDIA_ENGINE_MODEL_NAME = "media-model"
  /\ Len(call.requests) = 1
  /\ call.requests[1].client.model_name = "gpt-4"

\* The lines of a prompt between its two headings that start with a dash.
ErrorLinesOf(lines) ==
  LET a == CHOOSE i \in 1..Len(lines) : lines[i] = <<"**detected errors:**">>
      b == CHOOSE i \in 1..Len(lines) : lines[i] = <<"**requirements:**">>
      IsDashLine(l) == Len(l) > 0 /\ l[1] = "- "
  IN SelectSeq(SubSeq(lines, a + 1, b - 1), IsDashLine)

\* What a call shows apart from the credentials and the engine's name.
Anonymous(result, requests, logs) ==
  [result |-> result,
   requests |-> [i \in 1..Len(requests) |->
                   [system_prompt |-> requests[i].system_prompt,
                    user_prompt |-> requests[i].user_prompt,
                    temperature |-> requests[i].temperature,
                    top_p |-> requests[i].top_p]],
   failed |-> logs # <<>>]

\* C10: for the same arguments the four callables send the same request
\* (the system prompt, the user prompt listing every error once, in order,
\* as a dash line, temperature 0.0, top_p 0.05) and for the same response
\* they return the same result.
C10_SameApartFromCredentials ==
  call.made =>
    /\ \A i \in 1..Len(call.requests) :
         /\ call.requests[i].system_prompt = CHART_REPAIR_SYSTEM_PROMPT
         /\ call.requests[i].temperature = "0.0"
         /\ call.requests[i].top_p = "0.05"
         /\ ErrorLinesOf(call.requests[i].user_prompt) =
              [k \in 1..Len(call.errors) |-> <<"- ", call.errors[k]>>]
         /\ \E k \in 1..Len(call.requests[i].user_prompt) :
              call.requests[i].user_prompt[k] = json_dumps(call.widget_block)
    /\ \A k \in 1..Len(Engines) :
         LET other == RepairCallable(Engines[k], call.widget_block, call.errors, call.env)
         IN Anonymous(other.result, other.requests, other.logs)
              = Anonymous(call.result, call.requests, call.logs)

C10_Witness ==
  /\ call.made
  /\ call.engine = "MediaEngine"
  /\ call.errors = <<"datasets is not a list", "datasets is not a list">>
  /\ Len(call.requests) = 1
  /\ call.result.kind = "dict"

(***************************************************************************)
(* Properties of the chapter sanitization.                                 *)
(***************************************************************************)
TableBlocks == {i \in 1..Len(original.blocks) : original.blocks[i].type = "table"}

FilledCell(cell) == cell.blocks.state = "list" /\ cell.blocks.items # <<>>

\* C3: after the sanitization every cell whose blocks was an empty list,
\* None or absent holds a list of one paragraph block, every table cell
\* holds a non-empty list of blocks, and each row has as many cells as
\* before.
C3_EmptyCellsFilled ==
  sanitized =>
    /\ Len(chapter.blocks) = Len(original.blocks)
    /\ \A b \in TableBlocks :
         /\ chapter.blocks[b].type = "table"
         /\ Len(chapter.blocks[b].rows) = Len(original.blocks[b].rows)
         /\ \A r \in 1..Len(chapter.blocks[b].rows) :
              LET before == original.blocks[b].rows[r]
                  after == chapter.blocks[b].rows[r]
              IN /\ \A c \in 1..Len(after.cells) : FilledCell(after.cells[c])
                 /\ ~before.scalar =>
                      /\ ~after.scalar
                      /\ Len(after.cells) = Len(before.cells)
                      /\ \A c \in 1..Len(before.cells) :
                           ~FilledCell(before.cells[c]) =>
                             /\ Len(after.cells[c].blocks.items) = 1
                             /\ after.cells[c].blocks.items[1].type = "paragraph"

C3_Witness ==
  /\ sanitized
  /\ original = [blocks |-> <<Table(<<ObjectRow(<<Cell("", BlockList("list", <<>>)),
                                                  Cell("yoy", BlockList("none", <<>>))>>)>>)>>]
  /\ Len(chapter.blocks[1].rows[1].cells) = 2

\* C4: after the sanitization every row that was a scalar is, at the same
\* position, a row of exactly one cell whose blocks start with a paragraph
\* whose first inline holds the scalar; the table has as many rows as before.
C4_ScalarRowsExpanded ==
  sanitized =>
    \A b \in TableBlocks :
      /\ Len(chapter.blocks[b].rows) = Len(original.blocks[b].rows)
      /\ \A r \in 1..Len(original.blocks[b].rows) :
           original.blocks[b].rows[r].scalar =>
             LET after == chapter.blocks[b].rows[r] IN
             /\ ~after.scalar
             /\ Len(after.cells) = 1
             /\ after.cells[1].blocks.state = "list"
             /\ after.cells[1].blocks.items # <<>>
             /\ after.cells[1].blocks.items[1].type = "paragraph"
             /\ after.cells[1].blocks.items[1].inlines[1].text
                  = original.blocks[b].rows[r].value

C4_Witness ==
  /\ sanitized
  /\ original = [blocks |-> <<Table(<<ObjectRow(<<>>), ScalarRow("national trend")>>)>>]
  /\ chapter.blocks[1].rows[2].cells[1].blocks.items[1].inlines[1].text = "national trend"

=============================================================================
